---------------------------- MODULE Spec2Model ----------------------------
(***************************************************************************)
(* Configuration resolution of AI Documenter (src/src/classes/config.ts):  *)
(* the ConfigBuilder layering (defaults, environment, file), its final     *)
(* validation, and the ConfigManager cache with its asynchronous load.     *)
(*                                                                         *)
(* Strings are tuples of one-character strings, so that toLowerCase,       *)
(* parseInt and the URL constructor are computed and not assumed.          *)
(***************************************************************************)
EXTENDS Integers, Sequences, FiniteSets, TLC

(***************************************************************************)
(* String literals of the source and of the inputs.                        *)
(***************************************************************************)
S_openai == <<"o","p","e","n","a","i">>
S_lmstudio == <<"l","m","s","t","u","d","i","o">>
S_gpt4omini == <<"g","p","t","-","4","o","-","m","i","n","i">>
S_localhost == <<"h","t","t","p",":","/","/","l","o","c","a","l","h","o","s","t",":","1","2","3","4","/","v","1">>
S_localmodel == <<"l","o","c","a","l","-","m","o","d","e","l">>
S_docs == <<".","/","d","o","c","s">>
S_redacted == <<"[","R","E","D","A","C","T","E","D","]">>
S_empty == <<>>

S_LMStudio == <<"L","M","S","t","u","d","i","o">>
S_OPENAI == <<"O","P","E","N","A","I">>
S_azure == <<"a","z","u","r","e">>
S_skenv == <<"s","k","-","e","n","v">>
S_skfile == <<"s","k","-","f","i","l","e">>
S_skdot == <<"s","k","-","d","o","t">>
S_gpt4 == <<"g","p","t","-","4">>
S_o3 == <<"o","3">>
S_notaurl == <<"n","o","t"," ","a"," ","u","r","l">>
S_httpx == <<"h","t","t","p",":","/","/","x">>
S_httpnohost == <<"h","t","t","p",":","/","/">>
S_ftpy == <<"f","t","p",":","y">>
S_mailto == <<"m",":","b">>
S_m1 == <<"m","1">>
S_m2 == <<"m","2">>
S_out == <<"o","u","t">>
S_tmp == <<"t","m","p">>
S_abc == <<"a","b","c">>
S_zero == <<"0">>
S_minus5 == <<"-","5">>
S_five == <<"5">>
S_7x == <<"7","x">>
S_sp12 == <<" ","1","2">>
S_plus3 == <<"+","3">>

(***************************************************************************)
(* Characters.                                                             *)
(***************************************************************************)
UpperChars == <<"A","B","C","D","E","F","G","H","I","J","K","L","M","N","O","P","Q","R","S","T","U","V","W","X","Y","Z">>
LowerChars == <<"a","b","c","d","e","f","g","h","i","j","k","l","m","n","o","p","q","r","s","t","u","v","w","x","y","z">>
DigitChars == <<"0","1","2","3","4","5","6","7","8","9">>

Range(s) == {s[i] : i \in DOMAIN s}

IndexOf(c, s) == CHOOSE i \in DOMAIN s : s[i] = c

\* String.prototype.toLowerCase, one character
LowerChar(c) == IF c \in Range(UpperChars) THEN LowerChars[IndexOf(c, UpperChars)] ELSE c

\* String.prototype.toLowerCase
ToLowerCase(s) == [i \in DOMAIN s |-> LowerChar(s[i])]

IsDigit(c) == c \in Range(DigitChars)

IsAlpha(c) == c \in Range(UpperChars) \cup Range(LowerChars)

IsWhite(c) == c \in {" ", "\t", "\n", "\r"}

DigitVal(c) == IndexOf(c, DigitChars) - 1

\* JavaScript truthiness of a string value
Truthy(s) == Len(s) > 0

(***************************************************************************)
(* parseInt(s, 10): leading white space is skipped, one sign is accepted,  *)
(* the longest run of decimal digits is read; no digit gives NaN.          *)
(***************************************************************************)
NaN == [nan |-> TRUE, val |-> 0]

Num(n) == [nan |-> FALSE, val |-> n]

\* first index at or after i whose character fails the test, Len(s)+1 if none
RECURSIVE SkipWhite(_, _)
SkipWhite(s, i) == IF i <= Len(s) /\ IsWhite(s[i]) THEN SkipWhite(s, i + 1) ELSE i

RECURSIVE SkipDigits(_, _)
SkipDigits(s, i) == IF i <= Len(s) /\ IsDigit(s[i]) THEN SkipDigits(s, i + 1) ELSE i

\* value of the digits s[i..j-1]
RECURSIVE DigitsValue(_, _, _)
DigitsValue(s, i, j) == IF i >= j THEN 0 ELSE DigitsValue(s, i, j - 1) * 10 + DigitVal(s[j - 1])

ParseInt(s) ==
    LET i == SkipWhite(s, 1)
        signed == i <= Len(s) /\ s[i] \in {"+", "-"}
        neg == signed /\ s[i] = "-"
        j == IF signed THEN i + 1 ELSE i
        k == SkipDigits(s, j)
    IN  IF k = j THEN NaN
        ELSE Num(IF neg THEN 0 - DigitsValue(s, j, k) ELSE DigitsValue(s, j, k))

(***************************************************************************)
(* new URL(s) of Node (the WHATWG parser), as far as it decides whether    *)
(* the constructor throws: an absolute URL needs a scheme (a letter, then  *)
(* letters, digits, + - .) ended by ":", and a special scheme other than   *)
(* file needs a non-empty host without white space.                        *)
(***************************************************************************)
SpecialSchemes == {<<"h","t","t","p">>, <<"h","t","t","p","s">>, <<"w","s">>, <<"w","s","s">>, <<"f","t","p">>}

IsSchemeChar(c) == IsAlpha(c) \/ IsDigit(c) \/ c \in {"+", "-", "."}

RECURSIVE SkipScheme(_, _)
SkipScheme(s, i) == IF i <= Len(s) /\ IsSchemeChar(s[i]) THEN SkipScheme(s, i + 1) ELSE i

RECURSIVE SkipSlashes(_, _)
SkipSlashes(s, i) == IF i <= Len(s) /\ s[i] \in {"/", "\\"} THEN SkipSlashes(s, i + 1) ELSE i

\* end of the authority: the first of / \ ? # at or after i
RECURSIVE SkipHost(_, _)
SkipHost(s, i) == IF i <= Len(s) /\ s[i] \notin {"/", "\\", "?", "#"} THEN SkipHost(s, i + 1) ELSE i

\* the input with leading and trailing white space removed, as the parser does first
RECURSIVE TrimRight(_)
TrimRight(s) == IF Len(s) > 0 /\ IsWhite(s[Len(s)]) THEN TrimRight(SubSeq(s, 1, Len(s) - 1)) ELSE s

Trim(s) == LET t == TrimRight(s) IN SubSeq(t, SkipWhite(t, 1), Len(t))

UrlParses(raw) ==
    LET s == Trim(raw)
        k == SkipScheme(s, 1)
        hasScheme == Len(s) > 0 /\ IsAlpha(s[1]) /\ k <= Len(s) /\ s[k] = ":"
        scheme == ToLowerCase(SubSeq(s, 1, k - 1))
        h == SkipSlashes(s, k + 1)
        e == SkipHost(s, h)
    IN  /\ hasScheme
        /\ scheme \in SpecialSchemes =>
              /\ e > h
              /\ \A i \in h..(e - 1) : ~IsWhite(s[i])


(***************************************************************************)
(* Configurations.  A (partial) configuration is a function from some of   *)
(* the field names to values; a missing key is a field that is not there.   *)
(***************************************************************************)
Fields == {"provider", "openai_api_key", "openai_model", "lmstudio_endpoint",
           "lmstudio_model", "max_conversation_history", "default_output_dir", "timeout"}

NumFields == {"max_conversation_history", "timeout"}

Providers == {S_openai, S_lmstudio}

\* the {} of JavaScript
EmptyConfig == <<>>

\* the null of `private config: DocumenterConfig | null`
NoConfig == [null |-> TRUE]

\* !c.f of JavaScript: undefined, "" and 0 are falsy
Falsy(c, f) ==
    \/ f \notin DOMAIN c
    \/ f \in NumFields /\ c[f] = 0
    \/ f \notin NumFields /\ c[f] = S_empty

\* { ...a, ...b }
Merge(a, b) == [f \in DOMAIN a \cup DOMAIN b |-> IF f \in DOMAIN b THEN b[f] ELSE a[f]]

\* { [f]: v }
Only(f, v) == [x \in {f} |-> v]

DefaultMaxConversationHistory == 10

DefaultTimeout == 3600000

Defaults ==
    [provider |-> S_openai,
     openai_model |-> S_gpt4omini,
     lmstudio_endpoint |-> S_localhost,
     lmstudio_model |-> S_localmodel,
     max_conversation_history |-> DefaultMaxConversationHistory,
     default_output_dir |-> S_docs,
     timeout |-> DefaultTimeout]

(***************************************************************************)
(* Errors and results.                                                     *)
(***************************************************************************)
NoError == [name |-> "none"]

NoContext == [configPath |-> "", provider |-> S_empty, endpoint |-> S_empty,
              violations |-> {}, originalError |-> NoError]

ConfigurationError(message, context) ==
    [name |-> "ConfigurationError", message |-> message, context |-> context]

IsConfigurationError(e) == e.name = "ConfigurationError"

\* an error of another class: SyntaxError of JSON.parse, the Error of a failed system call
OtherError(name, code) == [name |-> name, message |-> code, context |-> NoContext]

Return(v) == [ok |-> TRUE, value |-> v, error |-> NoError]

Throw(e) == [ok |-> FALSE, value |-> NoConfig, error |-> e]

(***************************************************************************)
(* validateConfig(DocumenterConfigSchema, candidate, mode).  The schema:   *)
(* provider is one of the two identifiers, the two limits are positive     *)
(* integers, the other fields are strings; "file" mode tolerates missing   *)
(* fields, "final" mode needs the provider.                                *)
(***************************************************************************)
WellTyped(f, v) ==
    CASE f = "provider" -> v \in Providers
      [] f \in NumFields -> v \in Nat /\ v > 0
      [] OTHER -> TRUE

Violations(candidate, mode) ==
    {f \in DOMAIN candidate : ~WellTyped(f, candidate[f])}
        \cup (IF mode = "final" /\ "provider" \notin DOMAIN candidate THEN {"provider"} ELSE {})

validateConfig(candidate, mode) ==
    IF Violations(candidate, mode) = {}
    THEN Return(candidate)
    ELSE Throw(ConfigurationError("Configuration validation failed",
                   [NoContext EXCEPT !.violations = Violations(candidate, mode)]))

(***************************************************************************)
(* ConfigBuilder.                                                          *)
(***************************************************************************)
withDefaults(config) == Merge(config, Defaults)

\* process.env.NAME is set to a non-empty string
EnvHas(env, name) == name \in DOMAIN env /\ Truthy(env[name])

\* a provider selection that compares the variable as it is written
EnvProvider_CaseSensitive(env) ==
    IF EnvHas(env, "LLM_PROVIDER") /\ env["LLM_PROVIDER"] \in {S_openai, S_lmstudio}
    THEN Only("provider", env["LLM_PROVIDER"])
    ELSE EmptyConfig

EnvProvider(env) ==
    IF EnvHas(env, "LLM_PROVIDER") /\ ToLowerCase(env["LLM_PROVIDER"]) \in {S_openai, S_lmstudio}
    THEN Only("provider", ToLowerCase(env["LLM_PROVIDER"]))
    ELSE EmptyConfig

EnvString(env, name, f) == IF EnvHas(env, name) THEN Only(f, env[name]) ELSE EmptyConfig

EnvPositive(env, name, f) ==
    IF EnvHas(env, name) /\ ~ParseInt(env[name]).nan /\ ParseInt(env[name]).val > 0
    THEN Only(f, ParseInt(env[name]).val)
    ELSE EmptyConfig

envConfig(env) ==
    Merge(EnvProvider(env),
    Merge(EnvString(env, "OPENAI_API_KEY", "openai_api_key"),
    Merge(EnvString(env, "OPENAI_MODEL", "openai_model"),
    Merge(EnvString(env, "LMSTUDIO_ENDPOINT", "lmstudio_endpoint"),
    Merge(EnvString(env, "LMSTUDIO_MODEL", "lmstudio_model"),
    Merge(EnvPositive(env, "MAX_CONVERSATION_HISTORY", "max_conversation_history"),
    Merge(EnvString(env, "DEFAULT_OUTPUT_DIR", "default_output_dir"),
          EnvPositive(env, "LLM_TIMEOUT", "timeout"))))))))

withEnvironment(config, env) == Merge(config, envConfig(env))

\* a withFile under which the values already accumulated win over the file's
withFile_KeepExisting(config, fileConfig) == Merge(fileConfig, config)

withFile(config, fileConfig) == Merge(config, fileConfig)

\* a validateProviderRequirements without the check of the endpoint
validateProviderRequirements_NoUrlCheck(config) ==
    IF config["provider"] = S_openai /\ Falsy(config, "openai_api_key")
    THEN Throw(ConfigurationError("OpenAI API key is required when using OpenAI provider",
                   [NoContext EXCEPT !.provider = config["provider"]]))
    ELSE Return(config)

validateProviderRequirements(config) ==
    IF config["provider"] = S_openai /\ Falsy(config, "openai_api_key")
    THEN Throw(ConfigurationError("OpenAI API key is required when using OpenAI provider",
                   [NoContext EXCEPT !.provider = config["provider"]]))
    ELSE IF /\ config["provider"] = S_lmstudio
            /\ ~Falsy(config, "lmstudio_endpoint")
            /\ ~UrlParses(config["lmstudio_endpoint"])
    THEN Throw(ConfigurationError("Invalid LMStudio endpoint URL",
                   [NoContext EXCEPT !.provider = config["provider"],
                                     !.endpoint = config["lmstudio_endpoint"]]))
    ELSE Return(config)

\* a build that leaves the provider to the schema
build_NoProviderCheck(config) ==
    IF ~validateConfig(config, "final").ok
    THEN validateConfig(config, "final")
    ELSE validateProviderRequirements(validateConfig(config, "final").value)

build(config) ==
    IF Falsy(config, "provider")
    THEN Throw(ConfigurationError("Provider must be specified", NoContext))
    ELSE IF ~validateConfig(config, "final").ok
    THEN validateConfig(config, "final")
    ELSE validateProviderRequirements(validateConfig(config, "final").value)


(***************************************************************************)
(* ConfigManager: the pure parts of its methods.                           *)
(***************************************************************************)
ConfigPaths == <<".documenter.json", "documenter.config.json">>

\* a configuration file on disk: missing, unreadable (EACCES), text that is not
\* JSON, or JSON text with the object it parses to
NoFile == [kind |-> "missing", value |-> EmptyConfig]

Unreadable == [kind |-> "unreadable", value |-> EmptyConfig]

BadJson == [kind |-> "badjson", value |-> EmptyConfig]

Json(v) == [kind |-> "json", value |-> v]

\* an environment file on disk: missing, or the variables it defines
NoDotenv == [exists |-> FALSE, vars |-> <<>>]

Dotenv(v) == [exists |-> TRUE, vars |-> v]

\* dotenv.config({ path }): never throws; a file that cannot be read changes
\* nothing, a file that is read defines the variables not yet in process.env
dotenvConfig(env, file) ==
    [threw |-> FALSE, env |-> IF file.exists THEN Merge(file.vars, env) ELSE env]

loadEnvConfig(env, cwd, dotenvs) ==
    IF ~cwd
    THEN [ok |-> FALSE, env |-> env, error |-> OtherError("Error", "ENOENT: uv_cwd"), log |-> <<>>]
    ELSE IF ~dotenvConfig(env, dotenvs["local"]).threw
    THEN [ok |-> TRUE, env |-> dotenvConfig(env, dotenvs["local"]).env, error |-> NoError,
          log |-> <<"dotenv:local">>]
    ELSE IF ~dotenvConfig(env, dotenvs["global"]).threw
    THEN [ok |-> TRUE, env |-> dotenvConfig(env, dotenvs["global"]).env, error |-> NoError,
          log |-> <<"dotenv:local", "dotenv:global">>]
    ELSE [ok |-> TRUE, env |-> dotenvConfig(env, dotenvs["local"]).env, error |-> NoError,
          log |-> <<"dotenv:local", "dotenv:global", "dotenv:default">>]

\* the body of the try of loadFromFiles for one candidate: read, parse, validate
readCandidate(i, file) ==
    CASE file.kind = "missing" -> Throw(OtherError("Error", "ENOENT"))
      [] file.kind = "unreadable" -> Throw(OtherError("Error", "EACCES"))
      [] file.kind = "badjson" -> Throw(OtherError("SyntaxError", "Unexpected token"))
      [] OTHER ->
           IF validateConfig(file.value, "file").ok
           THEN Return(file.value)
           ELSE Throw(ConfigurationError("Invalid configuration in",
                          [NoContext EXCEPT !.configPath = ConfigPaths[i],
                                            !.originalError = validateConfig(file.value, "file").error]))

\* a loop of loadFromFiles that goes on after a candidate it could load
catchCandidate_GoOn(i, r) ==
    IF r.ok THEN [next |-> TRUE, result |-> r]
    ELSE IF IsConfigurationError(r.error) THEN [next |-> FALSE, result |-> r]
    ELSE IF r.error.name = "SyntaxError"
    THEN [next |-> FALSE,
          result |-> Throw(ConfigurationError("Invalid JSON in configuration file",
                               [NoContext EXCEPT !.configPath = ConfigPaths[i],
                                                 !.originalError = r.error]))]
    ELSE [next |-> TRUE, result |-> r]

\* a catch of loadFromFiles that does what its comment says of a JSON syntax
\* error: "continue to next"
catchCandidate_Continue(i, r) ==
    IF r.ok THEN [next |-> FALSE, result |-> r]
    ELSE IF IsConfigurationError(r.error) THEN [next |-> FALSE, result |-> r]
    ELSE [next |-> TRUE, result |-> r]

\* the catch of loadFromFiles for one candidate: next says that the loop goes on
catchCandidate(i, r) ==
    IF r.ok THEN [next |-> FALSE, result |-> r]
    ELSE IF IsConfigurationError(r.error) THEN [next |-> FALSE, result |-> r]
    ELSE IF r.error.name = "SyntaxError"
    THEN [next |-> FALSE,
          result |-> Throw(ConfigurationError("Invalid JSON in configuration file",
                               [NoContext EXCEPT !.configPath = ConfigPaths[i],
                                                 !.originalError = r.error]))]
    ELSE [next |-> TRUE, result |-> r]

tryCandidate(i, file) == catchCandidate(i, readCandidate(i, file))

\* the chain of loadConfig over the file layer that loadFromFiles returned
buildChain(env, fileConfig) ==
    build(withFile(withEnvironment(withDefaults(EmptyConfig), env), fileConfig))

\* a catch of loadConfig that wraps whatever it catches
loadConfigCatch_WrapAll(r) ==
    IF r.ok THEN r
    ELSE Throw(ConfigurationError("Failed to load configuration",
                   [NoContext EXCEPT !.originalError = r.error]))

\* the catch of loadConfig
loadConfigCatch(r) ==
    IF r.ok \/ IsConfigurationError(r.error) THEN r
    ELSE Throw(ConfigurationError("Failed to load configuration",
                   [NoContext EXCEPT !.originalError = r.error]))

\* an isValidForProvider without its try and catch
isValidForProvider_NoCatch(r, provider) ==
    [ok |-> r.ok,
     error |-> r.error,
     flag |-> IF ~r.ok THEN FALSE
              ELSE IF r.value["provider"] # provider THEN FALSE
              ELSE IF provider = S_openai THEN ~Falsy(r.value, "openai_api_key")
              ELSE ~Falsy(r.value, "lmstudio_endpoint") /\ ~Falsy(r.value, "lmstudio_model")]

\* isValidForProvider over r, what its `await this.getConfig()` gave: flag is the
\* boolean it returns, and ok says that it returned
isValidForProvider(r, provider) ==
    [ok |-> TRUE,
     error |-> NoError,
     flag |-> IF ~r.ok THEN FALSE
              ELSE IF r.value["provider"] # provider THEN FALSE
              ELSE IF provider = S_openai THEN ~Falsy(r.value, "openai_api_key")
              ELSE IF provider = S_lmstudio
              THEN ~Falsy(r.value, "lmstudio_endpoint") /\ ~Falsy(r.value, "lmstudio_model")
              ELSE FALSE]

\* a loadConfig that assigns the field before it knows that build() returned
storeConfig_Always(config, r) == r.value

\* a cache that the first load to complete fills for good
storeConfig_FirstWins(config, r) ==
    IF config # NoConfig THEN config ELSE IF r.ok THEN r.value ELSE config

\* `this.config = config` of loadConfig, reached only when build() returned: the
\* field after a load that ended with r
storeConfig(config, r) == IF r.ok THEN r.value ELSE config

\* a cache that is a static field, one for all managers
assignConfig_Static(all, m, v) == [x \in DOMAIN all |-> v]

\* `this.config = ...`: the field is the manager's own (line 151)
assignConfig(all, m, v) == [all EXCEPT ![m] = v]

\* a getInstance that makes a manager each time it is called
getInstance_New(inst) == [instance |-> inst, returned |-> "direct"]

\* getInstance(): the static field afterwards, and the manager returned
getInstance(inst) ==
    IF inst = "null"
    THEN [instance |-> "singleton", returned |-> "singleton"]
    ELSE [instance |-> inst, returned |-> inst]

\* a reset() that keeps the field
reset_Keep(config) == config

\* reset(): the field afterwards
reset(config) == NoConfig

\* what process.cwd() returns
S_cwd == <<"/", "w">>

NoSummary == [null |-> TRUE]

\* the object literal of getConfigSummary, before the endpoint is added
summaryBase(config) ==
    [provider |-> IF Falsy(config, "provider") THEN S_openai ELSE config["provider"],
     model |-> IF "provider" \in DOMAIN config /\ config["provider"] = S_lmstudio
               THEN (IF Falsy(config, "lmstudio_model") THEN S_localmodel
                     ELSE config["lmstudio_model"])
               ELSE (IF Falsy(config, "openai_model") THEN S_gpt4omini
                     ELSE config["openai_model"]),
     workingDir |-> S_cwd]

\* a getConfigSummary that spreads the configuration into what it returns
getConfigSummary_Spread(r, cwd) ==
    IF ~r.ok THEN [ok |-> FALSE, error |-> r.error, summary |-> NoSummary]
    ELSE IF ~cwd
    THEN [ok |-> FALSE, error |-> OtherError("Error", "ENOENT: uv_cwd"), summary |-> NoSummary]
    ELSE [ok |-> TRUE, error |-> NoError, summary |-> Merge(r.value, summaryBase(r.value))]

\* getConfigSummary over r, what its `await this.getConfig()` gave; process.cwd()
\* throws when the working directory is gone
getConfigSummary(r, cwd) ==
    IF ~r.ok THEN [ok |-> FALSE, error |-> r.error, summary |-> NoSummary]
    ELSE IF ~cwd
    THEN [ok |-> FALSE, error |-> OtherError("Error", "ENOENT: uv_cwd"), summary |-> NoSummary]
    ELSE [ok |-> TRUE, error |-> NoError,
          summary |-> IF /\ "provider" \in DOMAIN r.value /\ r.value["provider"] = S_lmstudio
                         /\ ~Falsy(r.value, "lmstudio_endpoint")
                      THEN Merge(summaryBase(r.value),
                                 Only("endpoint", r.value["lmstudio_endpoint"]))
                      ELSE summaryBase(r.value)]

\* a sanitizeConfigForLogging that redacts the key in its argument, not in a copy
sanitizeConfigForLogging_InPlace(config) ==
    [sanitized |-> IF ~Falsy(config, "openai_api_key")
                   THEN Merge(config, Only("openai_api_key", S_redacted))
                   ELSE config,
     config |-> IF ~Falsy(config, "openai_api_key")
                THEN Merge(config, Only("openai_api_key", S_redacted))
                ELSE config]

\* sanitizeConfigForLogging: the copy it returns, and the argument as the call leaves it
sanitizeConfigForLogging(config) ==
    [sanitized |-> IF ~Falsy(config, "openai_api_key")
                   THEN Merge(config, Only("openai_api_key", S_redacted))
                   ELSE config,
     config |-> config]


(***************************************************************************)
(* Bounds and input sets.                                                  *)
(***************************************************************************)
\* most environment variables a run of the builder starts with
MaxEnvVars == 1

\* most fields of the partial configuration a run hands to withFile
MaxFileFields == 1

EnvVars == {"LLM_PROVIDER", "OPENAI_API_KEY", "OPENAI_MODEL", "LMSTUDIO_ENDPOINT",
            "LMSTUDIO_MODEL", "MAX_CONVERSATION_HISTORY", "DEFAULT_OUTPUT_DIR", "LLM_TIMEOUT"}

EnvChoices ==
    [LLM_PROVIDER |-> {S_LMStudio, S_OPENAI, S_azure, S_empty},
     OPENAI_API_KEY |-> {S_skenv, S_empty},
     OPENAI_MODEL |-> {S_gpt4},
     LMSTUDIO_ENDPOINT |-> {S_notaurl, S_httpx},
     LMSTUDIO_MODEL |-> {S_m1},
     MAX_CONVERSATION_HISTORY |-> {S_abc, S_minus5, S_five},
     DEFAULT_OUTPUT_DIR |-> {S_out},
     LLM_TIMEOUT |-> {S_zero, S_7x}]

FileChoices ==
    [provider |-> {S_lmstudio, S_openai, S_empty},
     openai_api_key |-> {S_skfile, S_empty},
     openai_model |-> {S_o3},
     lmstudio_endpoint |-> {S_httpnohost, S_empty},
     lmstudio_model |-> {S_m2, S_empty},
     max_conversation_history |-> {3},
     default_output_dir |-> {S_tmp},
     timeout |-> {50, 0}]

\* the functions that give each of at most n of the keys one of its choices
RECURSIVE PicksFrom(_, _, _)
PicksFrom(choices, keys, n) ==
    IF keys = {} \/ n = 0 THEN {EmptyConfig}
    ELSE LET k == CHOOSE x \in keys : TRUE
         IN  PicksFrom(choices, keys \ {k}, n)
                 \cup {Merge(e, Only(k, v)) : e \in PicksFrom(choices, keys \ {k}, n - 1),
                                              v \in choices[k]}

Picks(choices, n) == PicksFrom(choices, DOMAIN choices, n)

BuilderEnvs == Picks(EnvChoices, MaxEnvVars)

BuilderFileArgs == Picks(FileChoices, MaxFileFields)

\* what the caller of the manager sets in process.env, and what is put on disk
ManagerEnvChoices ==
    [LLM_PROVIDER |-> {S_LMStudio},
     OPENAI_API_KEY |-> {S_skenv}]

ManagerFiles ==
    <<{NoFile, Unreadable, BadJson, Json([timeout |-> 0]), Json([openai_api_key |-> S_skdot]),
       Json([provider |-> S_lmstudio, lmstudio_endpoint |-> S_notaurl])},
      {NoFile, BadJson,
       Json([openai_api_key |-> S_skfile, lmstudio_model |-> S_empty])}>>

Instances == {"singleton", "direct"}

Callers == {1, 2, 3}

\* the instances and callers a run uses: the manager is driven by one caller
\* that awaits each call before the next (spec section 5)
ModeInstances(md) ==
    CASE md = "manager" -> {"singleton"}
      [] md = "instances" -> Instances
      [] md = "envfiles" -> {"singleton"}
      [] md = "race" -> {"singleton"}
      [] OTHER -> {}

ModeCallers(md) ==
    CASE md \in {"manager", "instances", "envfiles"} -> {1}
      [] md = "race" -> Callers
      [] OTHER -> {}

\* what is put on disk while the calls of the racing callers are in flight
RaceFiles ==
    <<{NoFile, Json([openai_api_key |-> S_skdot])},
      {NoFile, BadJson, Json([openai_api_key |-> S_skfile, lmstudio_model |-> S_empty])}>>

(***************************************************************************)
(* State.                                                                  *)
(***************************************************************************)
VARIABLES
    mode,           \* "builder": a ConfigBuilder used directly; "manager": a ConfigManager
    env,            \* process.env
    cwdOk,          \* process.cwd() succeeds (the directory still exists)
    dotenvFiles,    \* the environment files on disk, by candidate
    files,          \* the configuration files on disk, by candidate index
    managerConfig,  \* ConfigManager.config, by instance
    pc,             \* by caller: the call in flight and the candidate it is reading
    ev,             \* the call that settled last, until the world changes again
    discarded,      \* by instance: what the last reset() threw away, until the next call settles
    lastGet,        \* by instance: what getConfig returned, when it was the last call on it
    failedLoad,     \* by instance: the cache before loadConfig, when that failed and was the last call
    instance,       \* ConfigManager._instance
    builderConfig,  \* ConfigBuilder.config
    applied,        \* the layer methods called on the builder
    chain,          \* how far the calls follow withDefaults, withEnvironment, withFile
    fileArg         \* the partial configuration the run hands to withFile

vars == <<mode, instance, env, cwdOk, dotenvFiles, files, managerConfig, pc, ev, discarded, lastGet, failedLoad,
          builderConfig, applied, chain, fileArg>>

builderVars == <<builderConfig, applied, chain>>

managerVars == <<cwdOk, dotenvFiles, files, managerConfig, pc, discarded, lastGet, failedLoad>>

\* what a load in flight knows of the load that raced with it, once that settled
NoRival == [done |-> FALSE, ok |-> FALSE, value |-> NoConfig]

\* rank: 1 and 2 for the first and the second of two loads started on an empty
\* cache while the first was in flight; resetAt: the candidate whose read the call
\* was suspended at when reset() ran last (0: no reset while it was in flight)
Idle == [op |-> "idle", mgr |-> "none", provider |-> S_empty, at |-> 0,
         pre |-> NoConfig, log |-> <<>>, seen |-> <<>>,
         rank |-> 0, resetAt |-> 0, rival |-> NoRival]

\* a racing caller has made its one call
Done == [Idle EXCEPT !.op = "done"]

InFlight(p) == p.op \notin {"idle", "done"}

NotDiscarded == [after |-> FALSE, config |-> NoConfig]

NoFailedLoad == [after |-> FALSE, config |-> NoConfig]

\* the null of `private static _instance: ConfigManager | null`
NoInstance == "null"

NoEvent ==
    [op |-> "none", mgr |-> "none", kind |-> "none", value |-> NoConfig, flag |-> FALSE,
     error |-> NoError, raw |-> NoError, loaded |-> FALSE, log |-> <<>>, seen |-> <<>>,
     pre |-> NoConfig, provider |-> S_empty, input |-> NoConfig, summary |-> NoSummary,
     discarded |-> NotDiscarded, lastGet |-> NoConfig, chain |-> "new", applied |-> {},
     failedLoad |-> NoFailedLoad, inst |-> "none",
     rank |-> 0, resetAt |-> 0, rival |-> NoRival, inFlight |-> {},
     preAll |-> [m \in Instances |-> NoConfig]]

ReadLog == <<"readFile:1", "readFile:2">>

BuildLog == <<"withDefaults", "withEnvironment", "withFile", "build">>

Quiescent == \A t \in Callers : pc[t] = Idle

\* the manager after the module is loaded: line 348 has created the singleton
InitManager ==
    /\ mode = "manager"
    /\ instance = "singleton"
    /\ env = <<>>
    /\ fileArg = EmptyConfig

\* two managers, the one of getInstance() and one made with new, before
\* getInstance() is called for the first time
InitInstances ==
    /\ mode = "instances"
    /\ instance = NoInstance
    /\ env = <<>>
    /\ fileArg = EmptyConfig

\* the manager in a world with environment files: <cwd>/.env and
\* <home>/.documenter/.env, each missing or defining a key
InitEnvFiles ==
    /\ mode = "envfiles"
    /\ instance = "singleton"
    /\ env = <<>>
    /\ fileArg = EmptyConfig
    /\ dotenvFiles \in [local : {NoDotenv, Dotenv([OPENAI_API_KEY |-> S_skdot])},
                        global : {NoDotenv, Dotenv([OPENAI_API_KEY |-> S_skenv])}]

InitBuilder ==
    /\ mode = "builder"
    /\ instance = "singleton"
    /\ env \in BuilderEnvs
    /\ fileArg \in BuilderFileArgs

Init ==
    /\ InitManager \/ InitInstances \/ InitEnvFiles \/ InitBuilder
    /\ mode # "envfiles" => dotenvFiles = [local |-> NoDotenv, global |-> NoDotenv]
    /\ cwdOk = TRUE
    /\ files = [i \in DOMAIN ConfigPaths |-> NoFile]
    /\ managerConfig = [m \in Instances |-> NoConfig]
    /\ pc = [t \in Callers |-> Idle]
    /\ ev = NoEvent
    /\ discarded = [m \in Instances |-> NotDiscarded]
    /\ lastGet = [m \in Instances |-> NoConfig]
    /\ failedLoad = [m \in Instances |-> NoFailedLoad]
    /\ builderConfig = EmptyConfig
    /\ applied = {}
    /\ chain = "new"

(***************************************************************************)
(* ConfigManager: the calls.  A call runs to its first await in one step;  *)
(* Resume is the continuation after one readFile.                          *)
(***************************************************************************)
\* the racing callers make one call each, at any time; the callers of the other
\* runs await each call before they make the next
CanCall(t, m) ==
    /\ t \in ModeCallers(mode) /\ m \in ModeInstances(mode)
    /\ m = "singleton" => instance = "singleton"
    /\ IF mode = "race" THEN pc[t] = Idle ELSE Quiescent

AfterCall == IF mode = "race" THEN Done ELSE Idle

\* the promise of call op settles.  raw is how the body of loadConfig's try ended
\* (for a getConfig that found the cache: the cached value); assign says that the
\* call ran loadConfig; seen are the kinds of the candidate files as the call read them
Settle(t, m, op, provider, raw, assign, log, seen, pre) ==
    LET r == IF assign THEN loadConfigCatch(raw) ELSE raw
        v == isValidForProvider(r, provider)
        g == getConfigSummary(r, cwdOk)
    IN  /\ managerConfig' = IF assign
                            THEN assignConfig(managerConfig, m, storeConfig(managerConfig[m], r))
                            ELSE managerConfig
        /\ pc' = [u \in Callers |->
                     IF u = t THEN AfterCall
                     ELSE IF InFlight(pc[u]) /\ assign
                     THEN [pc[u] EXCEPT !.rival = [done |-> TRUE, ok |-> r.ok, value |-> r.value]]
                     ELSE pc[u]]
        /\ ev' = [NoEvent EXCEPT
                    !.op = op, !.mgr = m, !.provider = provider, !.log = log, !.seen = seen,
                    !.pre = pre, !.value = r.value, !.error = r.error, !.raw = raw.error,
                    !.kind = IF op = "isValidForProvider"
                             THEN (IF v.ok THEN "return" ELSE "throw")
                             ELSE IF op = "getConfigSummary"
                             THEN (IF g.ok THEN "return" ELSE "throw")
                             ELSE (IF r.ok THEN "return" ELSE "throw"),
                    !.summary = IF op = "getConfigSummary" THEN g.summary ELSE NoSummary,
                    !.flag = op = "isValidForProvider" /\ v.flag,
                    !.loaded = assign, !.discarded = discarded[m], !.lastGet = lastGet[m],
                    !.failedLoad = failedLoad[m], !.preAll = managerConfig,
                    !.rank = pc[t].rank, !.resetAt = pc[t].resetAt, !.rival = pc[t].rival]
        /\ discarded' = [discarded EXCEPT ![m] = NotDiscarded]
        /\ failedLoad' = [failedLoad EXCEPT ![m] = IF op = "loadConfig" /\ ~r.ok
                                                   THEN [after |-> TRUE, config |-> pre]
                                                   ELSE NoFailedLoad]
        /\ lastGet' = [lastGet EXCEPT ![m] = IF op = "getConfig" /\ r.ok THEN r.value
                                             ELSE NoConfig]

\* the load that t starts on m is the second on an empty cache: another one,
\* started on the empty cache as well, is in flight
Racing(t, m) ==
    /\ managerConfig[m] = NoConfig
    /\ \E u \in Callers \ {t} : InFlight(pc[u]) /\ pc[u].mgr = m /\ pc[u].pre = NoConfig

\* loadConfig up to its first await: the environment files, then the first readFile
BeginLoad(t, m, op, provider) ==
    LET e == loadEnvConfig(env, cwdOk, dotenvFiles)
    IN  IF e.ok
        THEN /\ env' = e.env
             /\ pc' = [u \in Callers |->
                          IF u = t
                          THEN [Idle EXCEPT !.op = op, !.mgr = m, !.provider = provider, !.at = 1,
                                            !.pre = managerConfig[m],
                                            !.log = Append(e.log, ReadLog[1]),
                                            !.rank = IF Racing(t, m) THEN 2 ELSE 0]
                          ELSE IF Racing(t, m) /\ InFlight(pc[u]) /\ pc[u].rank = 0
                          THEN [pc[u] EXCEPT !.rank = 1]
                          ELSE pc[u]]
             /\ UNCHANGED <<managerConfig, ev, discarded, lastGet, failedLoad>>
        ELSE /\ env' = env
             /\ Settle(t, m, op, provider, Throw(e.error), TRUE, e.log,
                       <<>>, managerConfig[m])

\* a getConfig that loads whatever the field holds
BeginGet_AlwaysLoad(t, m, op, provider) == BeginLoad(t, m, op, provider)

\* `if (!this.config) return this.loadConfig(); return this.config;`
BeginGet(t, m, op, provider) ==
    IF managerConfig[m] = NoConfig
    THEN BeginLoad(t, m, op, provider)
    ELSE /\ env' = env
         /\ Settle(t, m, op, provider, Return(managerConfig[m]), FALSE,
                   <<>>, <<>>, managerConfig[m])

LoadConfig(t, m) ==
    /\ CanCall(t, m)
    /\ BeginLoad(t, m, "loadConfig", S_empty)
    /\ UNCHANGED <<mode, instance, cwdOk, dotenvFiles, files, builderVars, fileArg>>

GetConfig(t, m) ==
    /\ CanCall(t, m)
    /\ BeginGet(t, m, "getConfig", S_empty)
    /\ UNCHANGED <<mode, instance, cwdOk, dotenvFiles, files, builderVars, fileArg>>

IsValidForProvider(t, m, provider) ==
    /\ CanCall(t, m)
    /\ BeginGet(t, m, "isValidForProvider", provider)
    /\ UNCHANGED <<mode, instance, cwdOk, dotenvFiles, files, builderVars, fileArg>>

GetConfigSummary(t, m) ==
    /\ CanCall(t, m)
    /\ BeginGet(t, m, "getConfigSummary", S_empty)
    /\ UNCHANGED <<mode, instance, cwdOk, dotenvFiles, files, builderVars, fileArg>>

\* a readFile of loadFromFiles settles: the loop goes on to the next candidate, or
\* loadFromFiles returns or throws and loadConfig runs to its end
Resume(t) ==
    /\ InFlight(pc[t])
    /\ LET i == pc[t].at
           c == tryCandidate(i, files[i])
           seen == Append(pc[t].seen, files[i].kind)
       IN  IF c.next /\ i < Len(ConfigPaths)
           THEN /\ pc' = [pc EXCEPT ![t].at = i + 1, ![t].log = Append(@, ReadLog[i + 1]),
                                    ![t].seen = seen]
                /\ UNCHANGED <<managerConfig, ev, discarded, lastGet, failedLoad>>
           ELSE LET fromFiles == IF c.next THEN Return(EmptyConfig) ELSE c.result
                IN  IF fromFiles.ok
                    THEN Settle(t, pc[t].mgr, pc[t].op, pc[t].provider,
                                buildChain(env, fromFiles.value),
                                TRUE, pc[t].log \o BuildLog, seen, pc[t].pre)
                    ELSE Settle(t, pc[t].mgr, pc[t].op, pc[t].provider,
                                fromFiles,
                                TRUE, pc[t].log, seen, pc[t].pre)
    /\ UNCHANGED <<mode, instance, env, cwdOk, dotenvFiles, files, builderVars, fileArg>>

\* a reset() that abandons the loads in flight
Reset_Cancels(t, m) ==
    /\ CanCall(t, m)
    /\ managerConfig' = assignConfig(managerConfig, m, reset(managerConfig[m]))
    /\ ev' = [NoEvent EXCEPT !.op = "reset", !.mgr = m, !.kind = "return",
                             !.pre = managerConfig[m], !.preAll = managerConfig,
                             !.inFlight = {u \in Callers : InFlight(pc[u])}]
    /\ pc' = [u \in Callers |-> IF u = t \/ InFlight(pc[u]) THEN AfterCall ELSE pc[u]]
    /\ failedLoad' = [failedLoad EXCEPT ![m] = NoFailedLoad]
    /\ discarded' = [discarded EXCEPT ![m] = [after |-> TRUE, config |-> managerConfig[m]]]
    /\ lastGet' = [lastGet EXCEPT ![m] = NoConfig]
    /\ UNCHANGED <<mode, instance, env, cwdOk, dotenvFiles, files, builderVars, fileArg>>

\* reset() is synchronous and assigns the field only: the calls in flight stay
\* where they are
Reset(t, m) ==
    /\ CanCall(t, m)
    /\ managerConfig' = assignConfig(managerConfig, m, reset(managerConfig[m]))
    /\ ev' = [NoEvent EXCEPT !.op = "reset", !.mgr = m, !.kind = "return",
                             !.pre = managerConfig[m], !.preAll = managerConfig,
                             !.inFlight = {u \in Callers : InFlight(pc[u])}]
    /\ pc' = [u \in Callers |->
                 IF u = t THEN AfterCall
                 ELSE IF InFlight(pc[u]) /\ pc[u].mgr = m THEN [pc[u] EXCEPT !.resetAt = pc[u].at]
                 ELSE pc[u]]
    /\ failedLoad' = [failedLoad EXCEPT ![m] = NoFailedLoad]
    /\ discarded' = [discarded EXCEPT ![m] = [after |-> TRUE, config |-> managerConfig[m]]]
    /\ lastGet' = [lastGet EXCEPT ![m] = NoConfig]
    /\ UNCHANGED <<mode, instance, env, cwdOk, dotenvFiles, files, builderVars, fileArg>>

\* the configurations a run hands to sanitizeConfigForLogging: the object getConfig
\* returned (the cached one), or the one a builder built
SanitizeInputs ==
    IF mode = "manager" THEN {managerConfig[m] : m \in ModeInstances(mode)} \ {NoConfig}
    ELSE IF ev.op = "build" /\ ev.kind = "return" THEN {ev.value}
    ELSE {}

SanitizeConfigForLogging ==
    /\ Quiescent
    /\ \E c \in SanitizeInputs :
          /\ ev' = [NoEvent EXCEPT !.op = "sanitizeConfigForLogging", !.kind = "return",
                                   !.value = sanitizeConfigForLogging(c).sanitized,
                                   !.input = c, !.mgr = "singleton",
                                   !.pre = managerConfig["singleton"]]
          \* in the manager's run the argument is the cached object itself: what the
          \* call does to its argument shows in the cache
          /\ managerConfig' = [m \in Instances |->
                                  IF managerConfig[m] = c
                                  THEN sanitizeConfigForLogging(c).config
                                  ELSE managerConfig[m]]
    /\ lastGet' = [m \in Instances |-> NoConfig]
    /\ failedLoad' = [m \in Instances |-> NoFailedLoad]
    /\ UNCHANGED <<mode, instance, env, cwdOk, dotenvFiles, files, pc, discarded, builderVars, fileArg>>

(***************************************************************************)
(* The world of the manager: the caller sets and deletes variables of      *)
(* process.env between its calls; files change on disk at any time.        *)
(***************************************************************************)
GetInstance ==
    /\ mode = "instances" /\ Quiescent
    /\ instance' = getInstance(instance).instance
    /\ ev' = [NoEvent EXCEPT !.op = "getInstance", !.kind = "return",
                             !.inst = getInstance(instance).returned,
                             !.preAll = managerConfig]
    /\ UNCHANGED <<mode, env, managerVars, builderVars, fileArg>>

SetEnv(name, value) ==
    /\ mode \in {"manager", "instances", "envfiles"} /\ Quiescent
    /\ env' = Merge(env, Only(name, value))
    /\ ev' = NoEvent
    /\ UNCHANGED <<mode, instance, cwdOk, dotenvFiles, files, managerConfig, pc, discarded, lastGet, failedLoad,
                   builderVars, fileArg>>

UnsetEnv(name) ==
    /\ mode \in {"manager", "instances", "envfiles"} /\ Quiescent
    /\ name \in DOMAIN env
    /\ env' = [k \in DOMAIN env \ {name} |-> env[k]]
    /\ ev' = NoEvent
    /\ UNCHANGED <<mode, instance, cwdOk, dotenvFiles, files, managerConfig, pc, discarded, lastGet, failedLoad,
                   builderVars, fileArg>>

WriteFile(i, file) ==
    /\ mode \in {"manager", "race"} /\ cwdOk
    /\ files' = [files EXCEPT ![i] = file]
    /\ ev' = NoEvent
    /\ UNCHANGED <<mode, instance, env, cwdOk, dotenvFiles, managerConfig, pc, discarded, lastGet, failedLoad,
                   builderVars, fileArg>>

\* the working directory is removed, and its files with it
RemoveCwd ==
    /\ mode = "manager" /\ cwdOk
    /\ cwdOk' = FALSE
    /\ files' = [i \in DOMAIN ConfigPaths |-> NoFile]
    /\ ev' = NoEvent
    /\ UNCHANGED <<mode, instance, env, dotenvFiles, managerConfig, pc, discarded, lastGet, failedLoad,
                   builderVars, fileArg>>

(***************************************************************************)
(* ConfigBuilder used directly.                                            *)
(***************************************************************************)
NextChain(c, layer) ==
    CASE c = "new" /\ layer = "withDefaults" -> "D"
      [] c = "D" /\ layer = "withEnvironment" -> "DE"
      [] c = "DE" /\ layer = "withFile" -> "DEF"
      [] OTHER -> "other"

WithDefaults ==
    /\ mode = "builder"
    /\ builderConfig' = withDefaults(builderConfig)
    /\ applied' = applied \cup {"withDefaults"}
    /\ chain' = NextChain(chain, "withDefaults")
    /\ ev' = NoEvent
    /\ UNCHANGED <<mode, instance, env, managerVars, fileArg>>

WithEnvironment ==
    /\ mode = "builder"
    /\ builderConfig' = withEnvironment(builderConfig, env)
    /\ applied' = applied \cup {"withEnvironment"}
    /\ chain' = NextChain(chain, "withEnvironment")
    /\ ev' = [NoEvent EXCEPT !.op = "withEnvironment", !.kind = "return",
                             !.input = builderConfig,
                             !.value = withEnvironment(builderConfig, env)]
    /\ UNCHANGED <<mode, instance, env, managerVars, fileArg>>

WithFile ==
    /\ mode = "builder"
    /\ builderConfig' = withFile(builderConfig, fileArg)
    /\ applied' = applied \cup {"withFile"}
    /\ chain' = NextChain(chain, "withFile")
    /\ ev' = NoEvent
    /\ UNCHANGED <<mode, instance, env, managerVars, fileArg>>

Build ==
    /\ mode = "builder"
    /\ ev' = [NoEvent EXCEPT !.op = "build",
                             !.kind = IF build(builderConfig).ok THEN "return" ELSE "throw",
                             !.value = build(builderConfig).value,
                             !.error = build(builderConfig).error,
                             !.input = builderConfig,
                             !.chain = chain, !.applied = applied]
    /\ UNCHANGED <<mode, instance, env, managerVars, builderVars, fileArg>>

Next ==
    \/ \E t \in Callers, m \in Instances : LoadConfig(t, m)
    \/ \E t \in Callers, m \in Instances : GetConfig(t, m)
    \/ \E t \in Callers, m \in Instances, p \in Providers : IsValidForProvider(t, m, p)
    \/ \E t \in Callers, m \in Instances : GetConfigSummary(t, m)
    \/ \E t \in Callers : Resume(t)
    \/ \E t \in Callers, m \in Instances : Reset(t, m)
    \/ SanitizeConfigForLogging
    \/ GetInstance
    \/ \E name \in DOMAIN ManagerEnvChoices : \E value \in ManagerEnvChoices[name] : SetEnv(name, value)
    \/ \E name \in EnvVars : UnsetEnv(name)
    \/ \E i \in DOMAIN ConfigPaths : \E file \in ManagerFiles[i] : WriteFile(i, file)
    \/ RemoveCwd
    \/ WithDefaults
    \/ WithEnvironment
    \/ WithFile
    \/ Build

Spec == Init /\ [][Next]_vars

(***************************************************************************)
(* The manager under callers that do not await each other: each of three   *)
(* callers makes one call (loadConfig, getConfig or reset) at any time,    *)
(* while the candidate files change on disk.                               *)
(***************************************************************************)
InitRace ==
    /\ mode = "race"
    /\ instance = "singleton"
    /\ env = [OPENAI_API_KEY |-> S_skenv]
    /\ fileArg = EmptyConfig
    /\ dotenvFiles = [local |-> NoDotenv, global |-> NoDotenv]
    /\ cwdOk = TRUE
    /\ files = [i \in DOMAIN ConfigPaths |-> NoFile]
    /\ managerConfig = [m \in Instances |-> NoConfig]
    /\ pc = [t \in Callers |-> Idle]
    /\ ev = NoEvent
    /\ discarded = [m \in Instances |-> NotDiscarded]
    /\ lastGet = [m \in Instances |-> NoConfig]
    /\ failedLoad = [m \in Instances |-> NoFailedLoad]
    /\ builderConfig = EmptyConfig
    /\ applied = {}
    /\ chain = "new"

NextRace ==
    \/ \E t \in Callers, m \in Instances : LoadConfig(t, m)
    \/ \E t \in Callers, m \in Instances : GetConfig(t, m)
    \/ \E t \in Callers : Resume(t)
    \/ \E t \in Callers, m \in Instances : Reset(t, m)
    \/ \E i \in DOMAIN ConfigPaths : \E file \in RaceFiles[i] : WriteFile(i, file)

SpecRace == InitRace /\ [][NextRace]_vars

(***************************************************************************)
(* Properties.  They read the call that settled last (ev) against the      *)
(* world it ran in: ev is cleared whenever process.env or the disk change, *)
(* so env and files are what that call saw when it settled.                *)
(***************************************************************************)
Last(s) == s[Len(s)]

\* the call ran loadConfig (on its own account or for getConfig), and how that ended
LoadSucceeded == ev.loaded /\ ev.error = NoError

LoadFailed == ev.loaded /\ ev.error # NoError

\* the file layer of the load that settled last: the object in the candidate at
\* which its loop stopped, or nothing when no candidate supplied one
FileLayerRead ==
    IF ev.seen # <<>> /\ Last(ev.seen) = "json" THEN files[Len(ev.seen)].value ELSE EmptyConfig

FileLayer == IF mode = "builder" THEN fileArg ELSE FileLayerRead

\* the variable of process.env that is recognized for each field
EnvName ==
    [provider |-> "LLM_PROVIDER",
     openai_api_key |-> "OPENAI_API_KEY",
     openai_model |-> "OPENAI_MODEL",
     lmstudio_endpoint |-> "LMSTUDIO_ENDPOINT",
     lmstudio_model |-> "LMSTUDIO_MODEL",
     max_conversation_history |-> "MAX_CONVERSATION_HISTORY",
     default_output_dir |-> "DEFAULT_OUTPUT_DIR",
     timeout |-> "LLM_TIMEOUT"]

\* the variable for field f is set in e and is well formed: not empty, a provider
\* identifier in any letter case, a positive integer for the two limits
WellFormedEnv(f, e) ==
    /\ EnvName[f] \in DOMAIN e
    /\ e[EnvName[f]] # S_empty
    /\ f = "provider" => ToLowerCase(e[EnvName[f]]) \in Providers
    /\ f \in NumFields => ~ParseInt(e[EnvName[f]]).nan /\ ParseInt(e[EnvName[f]]).val > 0

EnvValue(f, e) ==
    IF f = "provider" THEN ToLowerCase(e[EnvName[f]])
    ELSE IF f \in NumFields THEN ParseInt(e[EnvName[f]]).val
    ELSE e[EnvName[f]]

\* field f of value is what the layers give it: the file's value when the file
\* layer defines f, else the environment's, else the default, else nothing
LayeredField(value, f, e, fileConfig) ==
    IF f \in DOMAIN fileConfig THEN f \in DOMAIN value /\ value[f] = fileConfig[f]
    ELSE IF WellFormedEnv(f, e) THEN f \in DOMAIN value /\ value[f] = EnvValue(f, e)
    ELSE IF f \in DOMAIN Defaults THEN f \in DOMAIN value /\ value[f] = Defaults[f]
    ELSE f \notin DOMAIN value

\* field f of c is set to something other than the empty string
Present(c, f) == f \in DOMAIN c /\ c[f] # S_empty

\* C1: in the Configuration of a successful loadConfig() (and of build() after
\* withDefaults, withEnvironment, withFile in that order, which is what
\* loadConfig runs) every field has the file's value if the file layer defines
\* it, otherwise the value of its recognized well-formed environment variable
\* if there is one, otherwise its default
C1_LayerPrecedence ==
    (\/ LoadSucceeded
     \/ ev.op = "build" /\ ev.chain = "DEF" /\ ev.kind = "return")
        => \A f \in Fields : LayeredField(ev.value, f, env, FileLayer)

\* a load in which each layer decides a field: the file's key wins over the
\* environment's, the environment's provider over the default, the timeout is
\* the default
C1_Witness ==
    /\ LoadSucceeded /\ ev.op = "loadConfig"
    /\ "openai_api_key" \in DOMAIN FileLayerRead
    /\ WellFormedEnv("openai_api_key", env)
    /\ env["OPENAI_API_KEY"] # FileLayerRead["openai_api_key"]
    /\ ev.value["openai_api_key"] = FileLayerRead["openai_api_key"]
    /\ "provider" \notin DOMAIN FileLayerRead
    /\ ev.value["provider"] = S_lmstudio
    /\ ev.value["timeout"] = DefaultTimeout

\* C2 as stated: after a loadConfig() that failed the cache is empty (the
\* manager is UNLOADED), and the error reached the caller
C2_FailedLoadLeavesUnloaded ==
    (LoadFailed /\ ev.op = "loadConfig")
        => /\ managerConfig[ev.mgr] = NoConfig
           /\ ev.kind = "throw"

\* C2: after a loadConfig() that failed the cache is what it was when the call
\* was made (empty if it was empty, the Configuration cached before if there
\* was one, never a partial value), and the error reached the caller
C2_FailedLoadKeepsCache ==
    (LoadFailed /\ ev.op = "loadConfig")
        => /\ managerConfig[ev.mgr] = ev.pre
           /\ ev.kind = "throw"
           /\ ev.value = NoConfig

\* a loadConfig() that failed on a manager that held a Configuration
C2_Witness ==
    /\ LoadFailed /\ ev.op = "loadConfig"
    /\ ev.pre # NoConfig
    /\ managerConfig[ev.mgr] = ev.pre

\* the provider requirement: openai with a non-empty key, or lmstudio with an
\* endpoint that is not set (absent or empty) or that parses as a URL
ProviderRequirement(c) ==
    \/ c["provider"] = S_openai /\ Present(c, "openai_api_key")
    \/ c["provider"] = S_lmstudio
          /\ (~Present(c, "lmstudio_endpoint") \/ UrlParses(c["lmstudio_endpoint"]))

\* C3: build() over an accumulator that passes the final validation returns
\* exactly when the accumulator meets the provider requirement, and throws a
\* ConfigurationError otherwise; so the cache of every manager is empty or
\* holds a Configuration that meets the requirement
C3_ProviderRequirement ==
    /\ (ev.op = "build" /\ validateConfig(ev.input, "final").ok)
          => /\ ev.kind = "return" <=> ProviderRequirement(ev.input)
             /\ ev.kind = "throw" => IsConfigurationError(ev.error)
    /\ \A m \in Instances :
          managerConfig[m] # NoConfig => ProviderRequirement(managerConfig[m])

\* a build() that the final validation lets through and that throws: lmstudio
\* with an endpoint that does not parse
C3_Witness ==
    /\ ev.op = "build" /\ validateConfig(ev.input, "final").ok
    /\ ev.input["provider"] = S_lmstudio
    /\ ev.kind = "throw"
    /\ ev.error.context.endpoint = ev.input["lmstudio_endpoint"]

\* C4: getConfig() on a manager that holds a Configuration returns that
\* Configuration, without loading and without touching the cache; so when
\* getConfig() is called twice in succession the second call returns what
\* the first returned, whatever happened to process.env and to the files
\* in between
C4_CachedGetConfig ==
    /\ (ev.op = "getConfig" /\ ev.pre # NoConfig)
          => /\ ev.kind = "return" /\ ev.value = ev.pre
             /\ ~ev.loaded /\ ev.log = <<>>
             /\ managerConfig[ev.mgr] = ev.pre
    /\ (ev.op = "getConfig" /\ ev.lastGet # NoConfig)
          => /\ ev.kind = "return" /\ ev.value = ev.lastGet
             /\ ~ev.loaded /\ ev.log = <<>>

\* a second getConfig() that returns what the first returned although a load
\* would fail now: no file, no key, and the provider is openai
C4_Witness ==
    /\ ev.op = "getConfig" /\ ev.lastGet # NoConfig
    /\ ev.value = ev.lastGet
    /\ ev.value["provider"] = S_openai
    /\ "OPENAI_API_KEY" \notin DOMAIN env
    /\ \A i \in DOMAIN ConfigPaths : files[i] = NoFile

\* C5: reset() leaves the cache empty whatever it held, and the getConfig()
\* that follows a reset() runs the whole load (the environment files, the
\* candidate files, the builder chain): what it returns is layered from
\* process.env and the files as they are at that call, and is cached
C5_ResetThenGetConfig ==
    /\ ev.op = "reset" => managerConfig[ev.mgr] = NoConfig
    /\ (ev.op = "getConfig" /\ ev.discarded.after)
          => /\ ev.loaded
             /\ cwdOk => SubSeq(ev.log, 1, 2) = <<"dotenv:local", ReadLog[1]>>
             /\ ev.kind = "return"
                   => /\ ev.log = <<"dotenv:local">> \o SubSeq(ReadLog, 1, Len(ev.seen))
                                     \o BuildLog
                      /\ \A f \in Fields : LayeredField(ev.value, f, env, FileLayerRead)
                      /\ managerConfig[ev.mgr] = ev.value

\* a getConfig() after a reset() that returns something else than the
\* Configuration the reset() threw away
C5_Witness ==
    /\ ev.op = "getConfig" /\ ev.discarded.after
    /\ ev.discarded.config # NoConfig
    /\ ev.kind = "return"
    /\ ev.value # ev.discarded.config

\* the candidate at which the loop of the load stopped is not JSON, or is JSON
\* that the file validation rejects
CandidateRejected ==
    /\ ev.loaded /\ ev.seen # <<>>
    /\ \/ Last(ev.seen) = "badjson"
       \/ Last(ev.seen) = "json" /\ ~validateConfig(files[Len(ev.seen)].value, "file").ok

C7_ReadFailureIsFatal ==
    (ev.loaded /\ "unreadable" \in Range(ev.seen)) => ev.error # NoError

\* C8: a loadConfig() that fails throws a ConfigurationError: the very
\* ConfigurationError that the file loader or build() threw, or, for an error
\* of another class, one ConfigurationError around it that carries it as
\* originalError; the SyntaxError of a candidate is likewise wrapped once, by
\* the file loader
C8_ErrorNormalisation ==
    LoadFailed
        => /\ IsConfigurationError(ev.error)
           /\ ev.op # "isValidForProvider" => ev.kind = "throw"
           /\ IsConfigurationError(ev.raw) => ev.error = ev.raw
           /\ ~IsConfigurationError(ev.raw)
                 => /\ ev.error.context.originalError = ev.raw
                    /\ ev.error.message = "Failed to load configuration"
           /\ (ev.seen # <<>> /\ Last(ev.seen) = "badjson")
                 => /\ ev.error.context.originalError.name = "SyntaxError"
                    /\ ev.error.message = "Invalid JSON in configuration file"

\* a loadConfig() that failed with an error of another class: process.cwd()
\* threw
C8_Witness ==
    /\ LoadFailed /\ ev.op = "loadConfig"
    /\ ~IsConfigurationError(ev.raw)
    /\ ev.error.context.originalError = ev.raw

\* C9: isValidForProvider(p) returns, whatever the manager held and however
\* its load ended; it returns true exactly when the Configuration was
\* obtained, its provider is p, and the fields p needs are not empty (the key
\* for openai, the endpoint and the model for lmstudio)
C9_IsValidForProvider ==
    ev.op = "isValidForProvider"
        => /\ ev.kind = "return"
           /\ ev.flag <=> /\ ev.error = NoError
                          /\ ev.value["provider"] = ev.provider
                          /\ ev.provider = S_openai => Present(ev.value, "openai_api_key")
                          /\ ev.provider = S_lmstudio
                                => /\ Present(ev.value, "lmstudio_endpoint")
                                   /\ Present(ev.value, "lmstudio_model")

\* an isValidForProvider on an empty manager whose load failed: it returned false
C9_Witness ==
    /\ ev.op = "isValidForProvider"
    /\ ev.pre = NoConfig /\ LoadFailed
    /\ ev.kind = "return" /\ ~ev.flag

\* C10: sanitizeConfigForLogging(c) returns c with a non-empty key replaced by
\* "[REDACTED]" and every other field as in c; c itself and the cache are as
\* they were
C10_Sanitize ==
    ev.op = "sanitizeConfigForLogging"
        => /\ DOMAIN ev.value = DOMAIN ev.input
           /\ \A f \in DOMAIN ev.input \ {"openai_api_key"} : ev.value[f] = ev.input[f]
           /\ "openai_api_key" \in DOMAIN ev.input
                 => ev.value["openai_api_key"] =
                        IF ev.input["openai_api_key"] # S_empty
                        THEN <<"[", "R", "E", "D", "A", "C", "T", "E", "D", "]">>
                        ELSE S_empty
           /\ managerConfig[ev.mgr] = ev.pre
           /\ mode = "manager" => managerConfig[ev.mgr] = ev.input

\* the cached Configuration, which holds a key, was sanitized: the copy has the
\* marker and the cache still has the key
C10_Witness ==
    /\ ev.op = "sanitizeConfigForLogging" /\ mode = "manager"
    /\ Present(ev.input, "openai_api_key")
    /\ ev.value["openai_api_key"] # ev.input["openai_api_key"]
    /\ managerConfig[ev.mgr]["openai_api_key"] = ev.input["openai_api_key"]

IsPositiveInteger(s) ==
    /\ s # <<>>
    /\ \A i \in DOMAIN s : IsDigit(s[i])
    /\ \E i \in DOMAIN s : s[i] # "0"

\* field f is in b what it is in a: set in both to the same value, or in neither
SameField(a, b, f) ==
    /\ f \in DOMAIN a <=> f \in DOMAIN b
    /\ f \in DOMAIN a => a[f] = b[f]

\* C12 as stated: withEnvironment() returns, and when MAX_CONVERSATION_HISTORY
\* or LLM_TIMEOUT is set to something that is not a positive integer the field
\* of the accumulator is what it was before the call
C12_MalformedNumberIgnored ==
    ev.op = "withEnvironment"
        => /\ ev.kind = "return"
           /\ \A f \in NumFields :
                 (EnvName[f] \in DOMAIN env /\ ~IsPositiveInteger(env[EnvName[f]]))
                     => SameField(ev.input, ev.value, f)

\* s and t are the same text up to the case of their letters
EqualIgnoringCase(s, t) ==
    /\ Len(s) = Len(t)
    /\ \A i \in DOMAIN s :
          \/ s[i] = t[i]
          \/ \E k \in DOMAIN UpperChars : {s[i], t[i]} = {UpperChars[k], LowerChars[k]}

\* C16: withEnvironment() returns; when LLM_PROVIDER is, up to the case of its
\* letters, "openai" or "lmstudio", the provider of the accumulator becomes
\* that identifier in lower case; for every other value, and when the variable
\* is unset or empty, the provider is what it was before the call
C16_ProviderFromEnvironment ==
    ev.op = "withEnvironment"
        => /\ ev.kind = "return"
           /\ \A p \in Providers :
                 ("LLM_PROVIDER" \in DOMAIN env /\ EqualIgnoringCase(env["LLM_PROVIDER"], p))
                     => "provider" \in DOMAIN ev.value /\ ev.value["provider"] = p
           /\ ("LLM_PROVIDER" \notin DOMAIN env
                  \/ \A p \in Providers : ~EqualIgnoringCase(env["LLM_PROVIDER"], p))
                 => SameField(ev.input, ev.value, "provider")

\* LLM_PROVIDER=LMStudio over an accumulator whose provider was openai
C16_Witness ==
    /\ ev.op = "withEnvironment"
    /\ "LLM_PROVIDER" \in DOMAIN env
    /\ env["LLM_PROVIDER"] = <<"L", "M", "S", "t", "u", "d", "i", "o">>
    /\ "provider" \in DOMAIN ev.input /\ ev.input["provider"] = S_openai
    /\ ev.value["provider"] = S_lmstudio

\* build() threw "Provider must be specified"
ProviderMissing ==
    /\ ev.op = "build" /\ ev.kind = "throw"
    /\ ev.error.message = "Provider must be specified"

\* C18 as stated: build() after layer calls that include withDefaults() does
\* not fail with "Provider must be specified"
C18_DefaultsGiveProvider ==
    ProviderMissing => "withDefaults" \notin ev.applied

\* C18: build() fails with "Provider must be specified" exactly when the
\* provider of the accumulator is absent or empty; after layer calls that
\* include withDefaults() that is the case only when withFile() was given a
\* partial configuration whose provider is empty
C18_ProviderMissing ==
    ev.op = "build"
        => /\ ProviderMissing <=> ~Present(ev.input, "provider")
           /\ (ProviderMissing /\ "withDefaults" \in ev.applied)
                 => /\ "withFile" \in ev.applied
                    /\ "provider" \in DOMAIN fileArg /\ fileArg["provider"] = S_empty

\* a build() after the three layers, withDefaults() not first, that returns
C18_Witness ==
    /\ ev.op = "build" /\ ev.kind = "return"
    /\ ev.applied = {"withDefaults", "withEnvironment", "withFile"}
    /\ ev.chain = "other"
    /\ "provider" \in DOMAIN fileArg /\ fileArg["provider"] # S_empty

IsRead(x) == x \in Range(ReadLog)

\* the candidate file at index i holds a configuration that loads
Loads(i) == files[i].kind = "json" /\ validateConfig(files[i].value, "file").ok

\* C13: a load reads the candidates in the order .documenter.json,
\* documenter.config.json; a candidate that is missing sends it to the next
\* one; the first candidate that is there and loads supplies the file layer
\* and ends the search, so that the later candidate is not read; when every
\* candidate is missing the file layer is empty and the file loader raises
\* no error
C13_CandidateOrder ==
    (ev.loaded /\ ev.seen # <<>>)
        => /\ SelectSeq(ev.log, IsRead) = SubSeq(ReadLog, 1, Len(ev.seen))
           /\ \A i \in DOMAIN ev.seen :
                 /\ (ev.seen[i] = "missing" /\ i < Len(ConfigPaths)) => Len(ev.seen) > i
                 /\ ev.seen[i] = "json" => i = Len(ev.seen)
           /\ Loads(Len(ev.seen))
                 => /\ ev.value = buildChain(env, files[Len(ev.seen)].value).value
                    /\ ev.error = buildChain(env, files[Len(ev.seen)].value).error
           /\ (\A i \in DOMAIN ev.seen : ev.seen[i] = "missing")
                 => /\ Len(ev.seen) = Len(ConfigPaths)
                    /\ ev.value = buildChain(env, EmptyConfig).value
                    /\ ev.error = buildChain(env, EmptyConfig).error

\* a load that took its key from .documenter.json and did not read
\* documenter.config.json, which holds another key and an empty model
C13_Witness ==
    /\ LoadSucceeded /\ ev.seen = <<"json">>
    /\ Loads(2)
    /\ files[1].value # files[2].value
    /\ ev.value["openai_api_key"] = files[1].value["openai_api_key"]
    /\ ev.value["lmstudio_model"] = S_localmodel
    /\ ReadLog[2] \notin Range(ev.log)

\* C15: a loadConfig(), getConfig() or reset() on one manager leaves the
\* cache of every other manager, the one of getInstance() included, as it
\* was; getInstance() returns the manager held in the static field, the same
\* one at every call
C15_InstancesAreSeparate ==
    /\ ev.op \in {"loadConfig", "getConfig", "reset"}
          => \A m \in Instances \ {ev.mgr} : managerConfig[m] = ev.preAll[m]
    /\ ev.op = "getInstance"
          => /\ ev.inst = "singleton" /\ instance = "singleton"
             /\ managerConfig = ev.preAll

\* a loadConfig() on the manager made with new cached a Configuration while the
\* singleton kept another one
C15_Witness ==
    /\ ev.op = "loadConfig" /\ ev.mgr = "direct" /\ ev.kind = "return"
    /\ managerConfig["direct"] = ev.value
    /\ managerConfig["singleton"] # NoConfig
    /\ managerConfig["singleton"] # managerConfig["direct"]

\* C19: a loadConfig() that fails leaves the cache what it was when the call
\* was made; when the manager held a Configuration, the getConfig() that
\* follows returns that Configuration and loads nothing
C19_FailedLoadThenGetConfig ==
    /\ (ev.loaded /\ ev.error # NoError) => managerConfig[ev.mgr] = ev.pre
    /\ (ev.op = "getConfig" /\ ev.failedLoad.after /\ ev.failedLoad.config # NoConfig)
          => /\ ev.kind = "return"
             /\ ev.value = ev.failedLoad.config
             /\ ~ev.loaded /\ ev.log = <<>>
             /\ managerConfig[ev.mgr] = ev.failedLoad.config

\* a getConfig() that returned the Configuration cached before a loadConfig()
\* that failed
C19_Witness ==
    /\ ev.op = "getConfig" /\ ev.failedLoad.after
    /\ ev.failedLoad.config # NoConfig
    /\ ev.value = ev.failedLoad.config

\* C14 as stated: a load whose environment loader finds no file at
\* <cwd>/.env goes on to <home>/.documenter/.env, and from there to the
\* default search, and stops at the first file it loads: the variables of
\* the first file that is there are in process.env afterwards; no error of
\* the environment files reaches the caller
C14_EnvFileFallthrough ==
    (ev.loaded /\ ev.log # <<>>)
        => /\ ~dotenvFiles["local"].exists => "dotenv:global" \in Range(ev.log)
           /\ (~dotenvFiles["local"].exists /\ dotenvFiles["global"].exists)
                 => \A k \in DOMAIN dotenvFiles["global"].vars : k \in DOMAIN env
           /\ dotenvFiles["local"].exists
                 => /\ "dotenv:global" \notin Range(ev.log)
                    /\ \A k \in DOMAIN dotenvFiles["local"].vars : k \in DOMAIN env

(***************************************************************************)
(* Callers that do not await each other (SpecRace).                        *)
(***************************************************************************)
Complete(c) == validateConfig(c, "final").ok /\ ProviderRequirement(c)

\* the call that settled last was one of two loads started on the empty cache,
\* the other one has settled before it, and nothing else was called
RaceOver ==
    /\ ev.loaded /\ ev.rank # 0 /\ ev.rival.done
    /\ \A u \in Callers : ~InFlight(pc[u])
    /\ Cardinality({u \in Callers : pc[u] # Idle}) = 2

\* C17 as stated: once two loads started on the empty cache have both completed
\* (both with a Configuration), the cache holds the result of the call that was
\* started second
C17_SecondCallerWins ==
    (RaceOver /\ ev.error = NoError /\ ev.rival.ok)
        => managerConfig[ev.mgr] = (IF ev.rank = 2 THEN ev.value ELSE ev.rival.value)

\* C17: of two loadConfig()/getConfig() calls started on an empty cache, each
\* reads the environment files and the candidate files and (when a candidate
\* gives an object) runs the builder, whatever the cache holds by then; the
\* cache is at every point empty or one Configuration that passes the final
\* validation and the provider requirement; a load that returns leaves its own
\* Configuration in the cache, built from its own file read alone, and one
\* that throws leaves the cache as it was; so once both have completed the
\* cache holds the result of the call that completed last (if that one threw:
\* the result of the other, or nothing when both threw)
C17_LastCompletedLoadWins ==
    /\ \A m \in Instances : managerConfig[m] = NoConfig \/ Complete(managerConfig[m])
    /\ ev.rank # 0
          => /\ ev.loaded /\ ev.seen # <<>>
             /\ ev.log[1] = "dotenv:local"
             /\ \A i \in 1..Len(ev.seen) : ev.log[i + 1] = ReadLog[i]
             /\ ev.error = NoError => SubSeq(ev.log, Len(ev.seen) + 2, Len(ev.log)) = BuildLog
    /\ ev.loaded
          => managerConfig[ev.mgr] =
                 (IF ev.error = NoError THEN ev.value ELSE ev.preAll[ev.mgr])
    /\ (ev.loaded /\ ev.error = NoError)
          => \A f \in Fields : LayeredField(ev.value, f, env, FileLayerRead)
    /\ RaceOver
          => managerConfig[ev.mgr] =
                 (IF ev.error = NoError THEN ev.value
                  ELSE IF ev.rival.ok THEN ev.rival.value
                  ELSE NoConfig)

\* the load that was started first completes last, with another Configuration
\* than the one the second had stored, and a getConfig() among the two went on
\* loading although the cache was filled by then
C17_Witness ==
    /\ RaceOver /\ ev.error = NoError /\ ev.rival.ok
    /\ ev.rank = 1
    /\ ev.value # ev.rival.value
    /\ ev.preAll[ev.mgr] = ev.rival.value
    /\ managerConfig[ev.mgr] = ev.value

\* C20: reset() empties the cache and leaves the calls in flight in flight
\* (each stays in flight until it settles itself), and a load that was
\* suspended at a candidate's read when reset() ran stores its Configuration
\* when it returns: the cache then holds that Configuration, whose file layer
\* is the object of the candidate at which the load's loop stopped (the one it
\* was reading when reset() ran, if the loop stopped there)
C20_ResetDoesNotCancelLoad ==
    /\ ev.op = "reset"
          => /\ ev.inFlight \subseteq {u \in Callers : InFlight(pc[u])}
             /\ managerConfig[ev.mgr] = NoConfig
    /\ (ev.loaded /\ ev.resetAt # 0)
          => /\ Len(ev.seen) >= ev.resetAt
             /\ ev.error = NoError
                   => /\ ev.value # NoConfig
                      /\ managerConfig[ev.mgr] = ev.value
                      /\ \A f \in Fields : LayeredField(ev.value, f, env, FileLayerRead)

\* a loadConfig() alone with a reset(): the reset ran while the load read the
\* candidate that gave it its file layer, the cache was empty when the load
\* resumed, and it holds the load's Configuration, with the file's key
C20_Witness ==
    /\ ev.op = "loadConfig" /\ ev.loaded /\ ev.error = NoError
    /\ ev.resetAt # 0 /\ Len(ev.seen) = ev.resetAt
    /\ ev.rank = 0
    /\ Cardinality({u \in Callers : pc[u] = Done}) = 2
    /\ \A u \in Callers : ~InFlight(pc[u])
    /\ ev.preAll[ev.mgr] = NoConfig
    /\ "openai_api_key" \in DOMAIN FileLayerRead
    /\ managerConfig[ev.mgr] = ev.value
    /\ ev.value["openai_api_key"] = FileLayerRead["openai_api_key"]


=============================================================================
